---- MODULE Spec2Model ----
(***************************************************************************)
(* Model of the matching-and-placement engine of Fankai-Placement.py:      *)
(* FileMatcher.find_matches, FilePlacer.place_files and the two placement  *)
(* primitives of FileSystemManager (create_atomic_link, copy_file).        *)
(*                                                                         *)
(* File names are abstract: a name is a string, and the substring tests    *)
(* the code performs on names ('one piece', 'yabai', 'one piece yabai')    *)
(* are membership tests in the marker sets below.  The similarity scorer   *)
(* (rapidfuzz's fuzz.ratio, an external library) is an oracle: the calls   *)
(* of one loop iteration read one row of scores, nfo basename -> score,    *)
(* one of the rows the scorer of the run may answer for that video.        *)
(***************************************************************************)
EXTENDS Integers, Sequences, FiniteSets, TLC

VARIABLES
    video_files,        \* list of source videos (argument of find_matches)
    nfo_files,          \* list of reference .nfo files (argument of find_matches)
    rename_dict,        \* override table: video basename -> nfo basename
    scorer,             \* fuzz.ratio: video basename -> the rows it may answer
    placement_mode,     \* "c" (copy) or "h" (hardlink)
    current_platform,   \* platform.system(): "Windows" or "Linux"
    pc,                 \* position of the run
    vidx,               \* index of the next video of find_matches' loop
    locals,             \* locals of find_matches' last loop iteration
    standard_matches,   \* list of <<video, nfo, score>>
    unmatched,          \* list of <<video, suggestions>>
    one_piece_matches,  \* dict video -> list of <<nfo, score>>, in insertion order
    all_matches,        \* place_files: dict video -> list of <<nfo, score>>
    pos,                \* place_files: <<index of the video, index of the option>>
    placed_files,       \* place_files: list of placed videos
    updated_series,     \* place_files: set of touched series folders
    fs,                 \* the filesystem: destination path -> file or NoFile
    dirs,               \* directories that exist under the media root
    log,                \* lines written by logging.*
    io,                 \* environment of one place_files call: the I/O faults
    run,                \* number of the place_files invocation (1 or 2)
    start,              \* the filesystem when this invocation began
    first,              \* what the first invocation returned and left on disk
    is_auto,            \* Application.run: the 'auto' argument was given
    config,             \* the config table of the database
    paths,              \* Application.run: what get_paths returned
    downloads,          \* the videos that lie in the download folder
    catalog,            \* the .nfo files of the media library (on disk, in the API)
    trace,              \* the calls Application.run has made, in order
    resolved,           \* the batches handle_unmatched has given to place_files
    ridx,               \* index of the next entry of handle_unmatched's loop
    deleted,            \* source videos that confirm_cleanup has removed
    metadata,           \* series list launch_metadata_script was called with
    remote,             \* the lines of rename/films.txt on GitHub
    rename_table,       \* the lines of the table 'rename' of the database
    sync                \* where the synchronisation of the table stands

vars == <<video_files, nfo_files, rename_dict, scorer, placement_mode, current_platform,
          pc, vidx, locals, standard_matches, unmatched, one_piece_matches,
          all_matches, pos, placed_files, updated_series, fs, dirs, log, io,
          run, start, first, is_auto, config, paths, downloads, catalog,
          trace, resolved, ridx, deleted, metadata, remote, rename_table, sync>>

syncVars == <<remote, rename_table, sync>>

runVars == <<is_auto, config, paths, downloads, catalog, trace, resolved, ridx,
             deleted, metadata>>

matcherVars == <<vidx, locals, standard_matches, unmatched, one_piece_matches>>

placerVars == <<all_matches, pos, placed_files, updated_series, fs, dirs, log,
                io, run, start, first>>

inputVars == <<video_files, nfo_files, rename_dict, scorer, placement_mode,
               current_platform, syncVars>>

----------------------------------------------------------------------------
(* Bounds of the model *)

\* most videos in the download folder
MaxVideos == 2

\* most I/O faults the environment injects into one place_files call
MaxFaults == 1

\* most files that lie at destination paths before the first run
MaxExisting == 1

\* One Piece episodes in the wide catalog: more than process.extract returns
MaxFanOut == 6

\* most lines in the table 'rename' before the synchronisation
MaxStored == 2

----------------------------------------------------------------------------
(* Program constants *)

\* find_matches(..., threshold=95)
threshold == 95

\* rapidfuzz process.extract: limit=5
limit == 5

\* score of an exact override
override_score == 101

----------------------------------------------------------------------------
(* Names and the substring tests of the code *)

\* the One Piece episodes of the wide catalog
WideName(j) == "w" \o ToString(j)

WideOnePieceNames == { WideName(j) : j \in 1..MaxFanOut }

\* names (of videos, of nfo files) that contain 'one piece', lower-cased
OnePieceNames == {"p", "py", "op1", "op2"} \cup WideOnePieceNames

\* video names that contain 'yabai', lower-cased
YabaiNames == {"py"}

\* directories whose name contains 'one piece yabai', lower-cased
YabaiDirs == {"OPY"}

\* 'one piece' in name.lower()
HasOnePiece(name) == name \in OnePieceNames

Video(b, e) == [base |-> b, ext |-> e]

Nfo(d, b) == [dir |-> d, base |-> b]

\* os.path.splitext(os.path.basename(path))[0], of a video or of an nfo file
Basename(file) == file.base

\* collect_video_files keeps ".mkv" and ".mp4"
allowed_extensions == {"mkv", "mp4"}

\* the download folder, in the order os.walk lists it: two ordinary videos,
\* a One Piece video and a One Piece video of the Yabai release
Downloads ==
    << Video("x1", "mkv"), Video("x2", "mkv"), Video("p", "mkv"), Video("py", "mp4") >>

VideoUniverse == { Downloads[j] : j \in DOMAIN Downloads }

\* the values fuzz.ratio returns here: below, at and above the threshold
Scores == {threshold - 1, threshold, 100}

\* the catalogs of the runs: S1 = op1 in the Yabai folder, S2 = op2 in the
\* plain One Piece folder, n1 an ordinary episode
Catalogs ==
    { << Nfo("S1", "n1"), Nfo("OPY", "op1"), Nfo("OP", "op2") >> }

\* the override tables: none, overrides whose targets are in the catalog,
\* an override whose target is not
RenameDicts ==
    { [b \in {} |-> "none"],
      [b \in {"x1", "p"} |-> IF b = "x1" THEN "n1" ELSE "op1"],
      [b \in {"p"} |-> "gone"] }

VideoBases == { v.base : v \in VideoUniverse }

NfoBases == UNION { { c[j].base : j \in DOMAIN c } : c \in Catalogs }

\* every answer of the scorer for one video
Rows == [NfoBases -> Scores]

Row(n1, op1, op2) ==
    [k \in NfoBases |-> IF k = "n1" THEN n1 ELSE IF k = "op1" THEN op1 ELSE op2]

\* a scorer for which every video has a destination at or above the threshold
NearTable ==
    [b \in VideoBases |->
        IF b = "x1" THEN Row(threshold, threshold - 1, threshold - 1)
        ELSE IF b = "x2" THEN Row(100, threshold - 1, threshold - 1)
        ELSE IF b = "p" THEN Row(threshold - 1, threshold, 100)
        ELSE Row(threshold - 1, 100, threshold)]

\* a scorer of near misses: x1 has no match, p reaches the Yabai slot only,
\* py reaches the ordinary episode only
FarTable ==
    [b \in VideoBases |->
        IF b = "x1" THEN Row(threshold - 1, threshold - 1, threshold - 1)
        ELSE IF b = "x2" THEN Row(threshold, threshold - 1, threshold - 1)
        ELSE IF b = "p" THEN Row(threshold - 1, 100, threshold - 1)
        ELSE Row(threshold, threshold - 1, threshold - 1)]

\* the scorers of whole runs: fuzz.ratio is a function of the two names
ScoreTables ==
    { [b \in VideoBases |-> {table[b]}] : table \in {NearTable, FarTable} }

\* a scorer for which the second ordinary video, an opening, resembles no
\* episode of the catalog
ExtraTable ==
    [b \in VideoBases |->
        IF b = "x2" THEN Row(threshold - 1, threshold - 1, threshold - 1)
        ELSE NearTable[b]]

\* the scorers of the runs of Application.run
RunScoreTables ==
    ScoreTables \cup { [b \in VideoBases |-> {ExtraTable[b]}] }

\* the scorer about which nothing is known
AnyScorer == [b \in VideoBases |-> Rows]

\* a catalog with an episode that lies in the media root itself, and a One
\* Piece episode whose path (an absolute nfo_path of the API) is outside it
RootCatalog == << Nfo(".", "n1"), Nfo("/other", "op2") >>

\* a catalog in which the scan discovers the ordinary episode twice: in the
\* folder S1 first, in the folder S2 later
CollisionCatalog ==
    << Nfo("S1", "n1"), Nfo("OPY", "op1"), Nfo("OP", "op2"), Nfo("S2", "n1") >>

\* a wide catalog: an ordinary episode, the One Piece episodes (the first in
\* the Yabai folder), and an ordinary episode discovered last
WideCatalog ==
    << Nfo("S1", "n1") >>
        \o [j \in 1..MaxFanOut |->
               Nfo(IF j = 1 THEN "OPY" ELSE "OP", WideName(j))]
        \o << Nfo("S2", "n2") >>

WideBases == { WideCatalog[j].base : j \in DOMAIN WideCatalog }

\* the values fuzz.ratio returns for the ordinary episodes of the wide
\* catalog: two below the threshold, two from it on
PlainScores == {threshold - 2} \cup Scores

\* the values it returns for the One Piece episodes of the wide catalog
NearScores == {threshold - 1, threshold}

\* every answer of the scorer for one video over the wide catalog
WideRows ==
    { row \in [WideBases -> PlainScores] :
        \A k \in WideOnePieceNames : row[k] \in NearScores }

\* the scorers of the runs over the wide catalog: any row, for every video
WideScorers == { [b \in VideoBases |-> {row}] : row \in WideRows }

----------------------------------------------------------------------------
(* Sequences *)

Range(s) == { s[j] : j \in DOMAIN s }

Min(a, b) == IF a < b THEN a ELSE b

\* the lists of 1 to n elements of the list s, in the order of s
SubLists(s, n) ==
    { SelectSeq(s, LAMBDA x : x \in S) :
        S \in { T \in SUBSET Range(s) : Cardinality(T) \in 1..n } }

\* the lists of 1 to n different elements of the set S, in every order
Orders(S, n) ==
    UNION { { s \in [1..k -> S] : \A i, j \in 1..k : s[i] = s[j] => i = j } :
            k \in 1..n }

\* s without its j-th element
RemoveAt(s, j) == SubSeq(s, 1, j - 1) \o SubSeq(s, j + 1, Len(s))

----------------------------------------------------------------------------
(* FileMatcher.find_matches *)

\* keys of {basename: nfo for nfo in nfo_files}: a dict keeps a key at the
\* place of its first insertion
RECURSIVE DictKeys(_)
DictKeys(nfos) ==
    IF nfos = <<>> THEN <<>>
    ELSE LET before == DictKeys(SubSeq(nfos, 1, Len(nfos) - 1))
             key == Basename(nfos[Len(nfos)])
         IN  IF key \in Range(before) THEN before ELSE Append(before, key)

DictValueFirst(nfos, key) ==
    LET first_one == CHOOSE j \in DOMAIN nfos :
                    /\ Basename(nfos[j]) = key
                    /\ \A k \in DOMAIN nfos : Basename(nfos[k]) = key => j <= k
    IN  nfos[first_one]

\* value of the dict for a key: the last nfo inserted under it
DictValue(nfos, key) ==
    LET last == CHOOSE j \in DOMAIN nfos :
                    /\ Basename(nfos[j]) = key
                    /\ \A k \in DOMAIN nfos : Basename(nfos[k]) = key => k <= j
    IN  nfos[last]

nfo_basenames == DictKeys(nfo_files)

NfoOf(key) == DictValue(nfo_files, key)

IsOpKey(key) == HasOnePiece(key)

IsNonOpKey(key) == ~HasOnePiece(key)

op_nfo_choices == SelectSeq(nfo_basenames, IsOpKey)

non_op_nfo_choices == SelectSeq(nfo_basenames, IsNonOpKey)

BestIndexLast(row, choices) ==
    CHOOSE j \in DOMAIN choices :
        /\ \A k \in DOMAIN choices : row[choices[k]] <= row[choices[j]]
        /\ \A k \in DOMAIN choices : row[choices[k]] = row[choices[j]] => k <= j

\* index of the best choice: the highest score, the first among equals
BestIndex(row, choices) ==
    CHOOSE j \in DOMAIN choices :
        /\ \A k \in DOMAIN choices : row[choices[k]] <= row[choices[j]]
        /\ \A k \in DOMAIN choices : row[choices[k]] = row[choices[j]] => j <= k

\* choices by score descending, equal scores in the order of the choices
RECURSIVE SortByScore(_, _)
SortByScore(row, choices) ==
    IF choices = <<>> THEN <<>>
    ELSE LET j == BestIndex(row, choices)
         IN  << <<choices[j], row[choices[j]]>> >>
                 \o SortByScore(row, RemoveAt(choices, j))

\* score_cutoff of rapidfuzz: a result is kept when score >= score_cutoff
Cutoff(score, score_cutoff) == score >= score_cutoff

\* process.extract(query, choices, scorer=fuzz.ratio, score_cutoff=.., limit=..)
extract(row, choices, score_cutoff, lim) ==
    LET kept == SelectSeq(choices, LAMBDA c : Cutoff(row[c], score_cutoff))
        sorted == SortByScore(row, kept)
    IN  SubSeq(sorted, 1, Min(lim, Len(sorted)))

NoMatch == <<>>

\* process.extractOne(query, choices, scorer=fuzz.ratio): None on no choice
extractOne(row, choices) ==
    IF choices = <<>> THEN NoMatch
    ELSE LET j == BestIndex(row, choices) IN <<choices[j], row[choices[j]]>>

\* line 298: video_basename in rename_dict
InRenameDict(video) == Basename(video) \in DOMAIN rename_dict

\* line 300: nfo_target_name in self.nfo_basenames
TargetKnown(video) == rename_dict[Basename(video)] \in Range(nfo_basenames)

OverrideBranchNever(video) == FALSE

\* lines 298-302: the branch of the if; the elif of line 305 is its else
OverrideBranch(video) == InRenameDict(video)

\* line 307
possible_matches(video, row) == extract(row, op_nfo_choices, threshold, limit)

\* line 316
best_match(video, row) == extractOne(row, non_op_nfo_choices)

AcceptsAbove(score) == score > threshold

AcceptsAny(score) == TRUE

\* line 317: best_match[1] >= threshold
Accepts(score) == score >= threshold

suggestionsAmongPlain(video, row) == extract(row, non_op_nfo_choices, 0, limit)

\* line 324: no cutoff, so every score passes
suggestions(video, row) == extract(row, nfo_basenames, 0, limit)

\* lines 297-302: found_match after step 1
Step1Found(video) == InRenameDict(video) /\ TargetKnown(video)

\* lines 304-312: found_match after step 2
Step2Found(video, row) ==
    /\ ~OverrideBranch(video)
    /\ HasOnePiece(Basename(video))
    /\ possible_matches(video, row) # <<>>

Step3SkippedNever(video, row) == FALSE

\* line 315: if not found_match
Step3Skipped(video, row) == Step1Found(video) \/ Step2Found(video, row)

\* lines 316-320: found_match after step 3
Step3Found(video, row) ==
    /\ ~Step3Skipped(video, row)
    /\ best_match(video, row) # NoMatch
    /\ Accepts(best_match(video, row)[2])

\* line 322: found_match at the end of the iteration
found_match(video, row) ==
    Step1Found(video) \/ Step2Found(video, row) \/ Step3Found(video, row)

standard_afterOnce(video, row, sm) ==
    IF sm # <<>> THEN sm
    ELSE IF Step1Found(video)
    THEN << <<video, NfoOf(rename_dict[Basename(video)]), override_score>> >>
    ELSE IF Step3Found(video, row)
    THEN << <<video, NfoOf(best_match(video, row)[1]), best_match(video, row)[2]>> >>
    ELSE sm

\* one iteration of the loop of find_matches, lines 293-325
standard_after(video, row, sm) ==
    LET s1 == IF Step1Found(video)
              THEN Append(sm, <<video, NfoOf(rename_dict[Basename(video)]), override_score>>)
              ELSE sm
    IN  IF Step3Found(video, row)
        THEN Append(s1, <<video, NfoOf(best_match(video, row)[1]), best_match(video, row)[2]>>)
        ELSE s1

one_piece_after(video, row, opm) ==
    IF Step2Found(video, row)
    THEN LET pm == possible_matches(video, row)
         IN  Append(opm, [video |-> video,
                          options |-> [j \in DOMAIN pm |-> <<NfoOf(pm[j][1]), pm[j][2]>>]])
    ELSE opm

unmatched_after(video, row, um) ==
    IF found_match(video, row) THEN um
    ELSE Append(um, <<video, suggestions(video, row)>>)

NoLocals == [video |-> "none"]

\* the loop body of find_matches for the next video; the scorer's answers for
\* this video are the row
MatchVideo ==
    /\ pc = "find_matches"
    /\ vidx <= Len(video_files)
    /\ \E row \in scorer[Basename(video_files[vidx])] :
        LET video == video_files[vidx] IN
        /\ standard_matches' = standard_after(video, row, standard_matches)
        /\ one_piece_matches' = one_piece_after(video, row, one_piece_matches)
        /\ unmatched' = unmatched_after(video, row, unmatched)
        /\ locals' = [video |-> video, row |-> row]
    /\ vidx' = vidx + 1
    /\ UNCHANGED <<pc, inputVars, placerVars, runVars>>

MatchReturn ==
    /\ pc = "find_matches"
    /\ vidx > Len(video_files)
    /\ pc' = "matched"
    /\ locals' = NoLocals
    /\ UNCHANGED <<vidx, standard_matches, unmatched, one_piece_matches,
                   inputVars, placerVars, runVars>>

----------------------------------------------------------------------------
(* The filesystem *)

NfoUniverse == UNION { Range(c) : c \in Catalogs \cup {RootCatalog, CollisionCatalog} }

Path(d, n, e) == [dir |-> d, name |-> n, ext |-> e]

\* every path a placement can write
AllPaths ==
    { Path(n.dir, n.base, v.ext) : n \in NfoUniverse, v \in VideoUniverse }

File(d, f, m) == [data |-> d, full |-> f, mtime |-> m]

NoFile == File("none", FALSE, "none")

\* a file some earlier run or another program left at a destination
OldFile == File("old", TRUE, "old")

\* what shutil.copy2 leaves at the destination once it has finished: the
\* bytes and the modification time of the source
CopyOf(video) == File(video.base, TRUE, "source")

\* what a copy that stopped in the middle leaves: a prefix of the bytes
TruncatedCopyOf(video) == File(video.base, FALSE, "now")

\* a hardlink is the source's own inode
LinkOf(video) == File(video.base, TRUE, "source")

\* os.path.exists(path)
Exists(files, path) == files[path] # NoFile

----------------------------------------------------------------------------
(* FilePlacer.place_files *)

\* lines 350-354: all_matches = op_matches.copy(), then every standard match
\* is appended to the list of its video (a new key goes to the end)
RECURSIVE MergeStandard(_, _)
MergeStandard(all, sm) ==
    IF sm = <<>> THEN all
    ELSE LET video == sm[1][1]
             option == <<sm[1][2], sm[1][3]>>
             withKey == IF \E j \in DOMAIN all : all[j].video = video THEN all
                        ELSE Append(all, [video |-> video, options |-> <<>>])
             added == [j \in DOMAIN withKey |->
                          IF withKey[j].video = video
                          THEN [withKey[j] EXCEPT !.options = Append(@, option)]
                          ELSE withKey[j]]
         IN  MergeStandard(added, Tail(sm))

\* the triples of a batch, in the order the two loops of lines 357 and 362
\* visit them
RECURSIVE Flatten(_)
Flatten(all) ==
    IF all = <<>> THEN <<>>
    ELSE [j \in DOMAIN all[1].options |->
             <<all[1].video, all[1].options[j][1], all[1].options[j][2]>>]
         \o Flatten(Tail(all))

\* line 358
is_op_video(video) == HasOnePiece(Basename(video))

\* line 359
is_yabai_release(video) == Basename(video) \in YabaiNames

\* line 365: "one piece yabai" in nfo.lower(), a test on the whole path
is_yabai_destination(nfo) == nfo.dir \in YabaiDirs

GatedNever(video, nfo) == FALSE

\* lines 364-368: the placement is skipped with a warning
Gated(video, nfo) ==
    is_op_video(video) /\ is_yabai_destination(nfo) /\ ~is_yabai_release(video)

\* lines 370-373
destination_file(video, nfo) == Path(nfo.dir, Basename(nfo), video.ext)

\* directories that are not below the media root
OutsideDirs == {"/other"}

\* line 390: Path(nfo).relative_to(media_root) raises ValueError
is_outside(nfo) == nfo.dir \in OutsideDirs

\* line 390: Path(nfo).relative_to(media_root).parts[0]; an nfo file that lies
\* in the media root itself (dir ".") has its own file name as first part
serie_folder(nfo) == IF nfo.dir = "." THEN Basename(nfo) \o ".nfo" ELSE nfo.dir

LogLine(lvl, what, video, nfo) ==
    [level |-> lvl, what |-> what, video |-> video, nfo |-> nfo]

\* the outcomes the environment can give to the I/O of one placement
\*   ok              nothing fails
\*   makedirs        os.makedirs raises (lines 236, 249)
\*   copy            shutil.copy2 raises after it has begun to write (line 250)
\*   link            os.link raises, and so does fsutil where it is tried (238, 243)
\*   link_fsutil_ok  os.link raises and fsutil creates the link (Windows)
Outcomes(mode, platform) ==
    IF mode = "c" THEN {"ok", "makedirs", "copy"}
    ELSE IF platform = "Windows" THEN {"ok", "makedirs", "link", "link_fsutil_ok"}
    ELSE {"ok", "makedirs", "link"}

\* FileSystemManager.copy_file, lines 247-250.  The result says whether the
\* call raised.
copy_file(st, video, nfo, outcome) ==
    LET dest == destination_file(video, nfo) IN
    IF outcome = "makedirs" THEN [st EXCEPT !.raised = TRUE]
    ELSE IF outcome = "copy"
    THEN [st EXCEPT !.dirs = @ \cup {nfo.dir},
                    !.fs[dest] = TruncatedCopyOf(video),
                    !.raised = TRUE]
    ELSE [st EXCEPT !.dirs = @ \cup {nfo.dir},
                    !.fs[dest] = CopyOf(video),
                    !.raised = FALSE]

\* FileSystemManager.create_atomic_link, lines 234-245: os.makedirs is outside
\* the try; an OSError of os.link is logged and not raised again, and neither
\* is a failure of fsutil
create_atomic_link(st, video, nfo, outcome) ==
    LET dest == destination_file(video, nfo) IN
    IF outcome = "makedirs" THEN [st EXCEPT !.raised = TRUE]
    ELSE IF outcome = "link"
    THEN [st EXCEPT !.dirs = @ \cup {nfo.dir},
                    !.log = Append(@, LogLine("error", "hardlink", video, nfo))
                            \o (IF current_platform = "Windows"
                                THEN << LogLine("error", "fsutil", video, nfo) >>
                                ELSE <<>>),
                    !.raised = FALSE]
    ELSE IF outcome = "link_fsutil_ok"
    THEN [st EXCEPT !.dirs = @ \cup {nfo.dir},
                    !.log = Append(@, LogLine("error", "hardlink", video, nfo)),
                    !.fs[dest] = LinkOf(video),
                    !.raised = FALSE]
    ELSE [st EXCEPT !.dirs = @ \cup {nfo.dir},
                    !.fs[dest] = LinkOf(video),
                    !.raised = FALSE]

\* lines 381-384
Perform(st, video, nfo, outcome) ==
    IF placement_mode = "c" THEN copy_file(st, video, nfo, outcome)
    ELSE create_atomic_link(st, video, nfo, outcome)

ExistsNever(files, path) == FALSE

\* line 377
DestinationExists(files, path) == Exists(files, path)

\* the body of the inner loop, lines 362-394, for one triple.  st holds the
\* filesystem, the two accumulators and the log; raised says that the except
\* clause of line 393 caught an exception of this triple
place_one(st, video, nfo, score, outcome) ==
    IF Gated(video, nfo)
    THEN [st EXCEPT !.log = Append(@, LogLine("warning", "gate", video, nfo))]
    ELSE IF DestinationExists(st.fs, destination_file(video, nfo)) THEN st
    ELSE LET begun == [st EXCEPT !.log = Append(@, LogLine("info", "place", video, nfo))]
             done == Perform(begun, video, nfo, outcome)
         IN  IF done.raised
             THEN [done EXCEPT !.log = Append(@, LogLine("error", "place", video, nfo))]
             ELSE IF is_outside(nfo)
             THEN [done EXCEPT !.placed_files = Append(@, video),
                               !.log = Append(@, LogLine("error", "place", video, nfo)),
                               !.raised = TRUE]
             ELSE [done EXCEPT !.placed_files = Append(@, video),
                               !.updated_series = @ \cup {serie_folder(nfo)}]

\* the state of one place_files call
PlacerState ==
    [fs |-> fs, dirs |-> dirs, placed_files |-> placed_files,
     updated_series |-> updated_series, log |-> log, raised |-> FALSE]

triples == Flatten(all_matches)

\* the triple the loops are at
Current == triples[pos]

Faults(f) == { t \in DOMAIN f : f[t] # "ok" }

\* the environments of one call: an outcome for the I/O of every triple of
\* the batch, the faults at most MaxFaults over the two calls.  A triple that
\* the gate or a file present at the start keeps from any I/O has no outcome
\* to choose.
Environments(all) ==
    LET keys == { <<t[1], t[2]>> : t \in Range(Flatten(all)) }
    IN  { f \in [keys -> Outcomes(placement_mode, current_platform)] :
            /\ Cardinality(Faults(f)) + first.faults <= MaxFaults
            /\ \A t \in Faults(f) :
                  ~Gated(t[1], t[2]) /\ ~Exists(fs, destination_file(t[1], t[2])) }

\* lines 345-354
PlaceStart ==
    /\ pc = "matched"
    /\ pc' = "place_files"
    /\ all_matches' = MergeStandard(one_piece_matches, standard_matches)
    /\ pos' = 1
    /\ placed_files' = <<>>
    /\ updated_series' = {}
    /\ io' \in Environments(all_matches')
    /\ start' = [fs |-> fs, dirs |-> dirs]
    /\ UNCHANGED <<inputVars, matcherVars, fs, dirs, log, run, first, runVars>>

NextPosLeavingLoop(p, raised, n) == IF raised THEN n + 1 ELSE p + 1

\* lines 375-394: the try is inside the inner loop, so a caught exception
\* ends one triple only
NextPos(p, raised, n) == p + 1

\* the loops of lines 357-394 over a list of triples, from its p-th on
RECURSIVE place_from(_, _, _)
place_from(st, ts, p) ==
    IF p > Len(ts) THEN st
    ELSE LET t == ts[p]
             after == place_one(st, t[1], t[2], t[3], io[<<t[1], t[2]>>])
         IN  place_from(after, ts, NextPos(p, after.raised, Len(ts)))

\* what place_files returns, and what it leaves on disk
Outcome(st) ==
    [placed |-> Range(st.placed_files), series |-> st.updated_series,
     fs |-> st.fs, dirs |-> st.dirs]

\* one turn of the inner loop of place_files, lines 362-394
PlaceTriple ==
    /\ pc = "place_files"
    /\ pos <= Len(triples)
    /\ LET t == Current
           after == place_one(PlacerState, t[1], t[2], t[3], io[<<t[1], t[2]>>])
       IN  /\ fs' = after.fs
           /\ dirs' = after.dirs
           /\ placed_files' = after.placed_files
           /\ updated_series' = after.updated_series
           /\ log' = after.log
           /\ pos' = NextPos(pos, after.raised, Len(triples))
    /\ UNCHANGED <<pc, inputVars, matcherVars, all_matches, io, run, start, first,
                   runVars>>

\* line 397: return list(set(placed_files)), updated_series
PlacedSet == Range(placed_files)

PlaceReturn ==
    /\ pc = "place_files"
    /\ pos > Len(triples)
    /\ pc' = "returned"
    /\ UNCHANGED <<inputVars, matcherVars, placerVars, runVars>>

\* the same batch is placed a second time, by a new run of the program on the
\* same inputs: the log file is opened anew (setup_logging, line 79)
Rerun ==
    /\ pc = "returned"
    /\ run = 1
    /\ run' = 2
    /\ pc' = "matched"
    /\ first' = [placed |-> PlacedSet, series |-> updated_series,
                 fs |-> fs, dirs |-> dirs, faults |-> Cardinality(Faults(io))]
    /\ log' = <<>>
    /\ UNCHANGED <<inputVars, matcherVars, all_matches, pos, placed_files,
                   updated_series, fs, dirs, io, start, runVars>>

NoFirst ==
    [placed |-> {}, series |-> {}, fs |-> [p \in AllPaths |-> NoFile],
     dirs |-> {}, faults |-> 0]

NoStart == [fs |-> [p \in AllPaths |-> NoFile], dirs |-> {}]

\* what is left of the process after sys.exit: nothing but the disk and the log
Exited ==
    /\ pc' = "exited"
    /\ vidx' = 1
    /\ locals' = NoLocals
    /\ standard_matches' = <<>>
    /\ unmatched' = <<>>
    /\ one_piece_matches' = <<>>
    /\ all_matches' = <<>>
    /\ pos' = 1
    /\ placed_files' = <<>>
    /\ updated_series' = {}
    /\ io' = <<>>
    /\ start' = NoStart
    /\ first' = NoFirst
    /\ UNCHANGED <<inputVars, run, runVars>>

\* handle_interrupt, lines 90-93: SIGINT ends the process with sys.exit(0),
\* a SystemExit that the except clause of line 393 does not catch
Interrupt ==
    /\ pc \in {"find_matches", "matched", "place_files"}
    /\ Exited
    /\ UNCHANGED <<fs, dirs, log>>

\* SIGINT while shutil.copy2 is writing the destination of the current triple
InterruptCopy ==
    /\ pc = "place_files"
    /\ pos <= Len(triples)
    /\ placement_mode = "c"
    /\ LET t == Current
           dest == destination_file(t[1], t[2])
       IN  /\ ~Gated(t[1], t[2])
           /\ ~DestinationExists(fs, dest)
           /\ io[<<t[1], t[2]>>] = "ok"
           /\ fs' = [fs EXCEPT ![dest] = TruncatedCopyOf(t[1])]
           /\ dirs' = dirs \cup {t[2].dir}
           /\ log' = Append(log, LogLine("info", "place", t[1], t[2]))
    /\ Exited

----------------------------------------------------------------------------
(* Application.run and the UIManager *)

\* the roots the user means
MediaRoot == "/media"

DownloadRoot == "/dl"

\* values of the config table: the defaults of lines 119-122 until the user
\* has configured a key; "None" is a key that load_config does not return
MediaValues == {"None", "FANKAI_PARENTS", MediaRoot}

DownloadValues == {"None", "FANKAI_TELECHARGEMENT", DownloadRoot}

PlacementValues == {"TYPE_PLACEMENT", "h", "c"}

PlexValues == {"PLEX_PLUGIN", "y", "n"}

\* line 439
is_media_ok(media_path) == media_path \notin {"None", "", "FANKAI_PARENTS"}

\* line 440
is_download_ok(download_path) ==
    download_path \notin {"None", "", "FANKAI_TELECHARGEMENT"}

\* what ask_for_directory can return in interactive mode: the directory the
\* user picks, or the empty line of input()
Picked(root) == {"", root}

\* video names that re.search(r'opening|ending|creditless|op\d*|ed\d*', ..)
\* of line 536 finds a match in
ExtraNames == {"x2"}

\* score of a resolution of handle_unmatched, line 560
reviewer_score == 102

NoPaths == [media |-> "none", download |-> "none"]

\* a line of the log that is about no triple
RunLine(lvl, what) == LogLine(lvl, what, "none", "none")

\* sys.exit(1) of the UIManager, or an exception that leaves run and is
\* caught and logged at line 698: the run is over
RunAborted(lvl, what, call) ==
    /\ pc' = "exited"
    /\ log' = Append(log, RunLine(lvl, what))
    /\ trace' = Append(trace, call)
    /\ UNCHANGED <<inputVars, matcherVars, all_matches, pos, placed_files,
                   updated_series, fs, dirs, io, run, start, first, is_auto,
                   config, paths, downloads, catalog, resolved, ridx, deleted,
                   metadata>>

\* UIManager.get_paths, lines 433-459, called at line 642.  In interactive
\* mode each path is kept (answer yes) or chosen anew (answer no).
RunGetPaths ==
    /\ pc = "run"
    /\ IF is_auto
       THEN IF ~is_media_ok(config.fankai_parents)
                \/ ~is_download_ok(config.fankai_telechargement)
            THEN RunAborted("error", "paths_not_configured", "get_paths")
            ELSE /\ paths' = [media |-> config.fankai_parents,
                               download |-> config.fankai_telechargement]
                 /\ pc' = "method"
                 /\ trace' = Append(trace, "get_paths")
                 /\ UNCHANGED <<inputVars, matcherVars, placerVars, is_auto, config,
                                downloads, catalog, resolved, ridx, deleted, metadata>>
       ELSE \E media \in {config.fankai_parents} \cup Picked(MediaRoot),
               download \in {config.fankai_telechargement} \cup Picked(DownloadRoot) :
                 /\ paths' = [media |-> media, download |-> download]
                 /\ config' = [config EXCEPT !.fankai_parents = media,
                                             !.fankai_telechargement = download]
                 /\ pc' = "method"
                 /\ trace' = Append(trace, "get_paths")
                 /\ UNCHANGED <<inputVars, matcherVars, placerVars, is_auto,
                                downloads, catalog, resolved, ridx, deleted, metadata>>

\* UIManager.get_placement_method, lines 461-486, called at line 645
RunGetPlacementMethod ==
    /\ pc = "method"
    /\ IF is_auto
       THEN IF config.type_placement \notin {"h", "c"}
            THEN RunAborted("error", "placement_not_configured", "get_placement_method")
            ELSE /\ placement_mode' = config.type_placement
                 /\ UNCHANGED config
                 /\ pc' = "scan"
                 /\ trace' = Append(trace, "get_placement_method")
                 /\ UNCHANGED <<video_files, nfo_files, rename_dict, syncVars, scorer,
                                current_platform, matcherVars, placerVars, is_auto,
                                paths, downloads, catalog, resolved, ridx, deleted,
                                metadata>>
       ELSE \E choice \in {"h", "c"} :
                 /\ placement_mode' = choice
                 /\ config' = [config EXCEPT !.type_placement = choice]
                 /\ pc' = "scan"
                 /\ trace' = Append(trace, "get_placement_method")
                 /\ UNCHANGED <<video_files, nfo_files, rename_dict, syncVars, scorer,
                                current_platform, matcherVars, placerVars, is_auto,
                                paths, downloads, catalog, resolved, ridx, deleted,
                                metadata>>

\* FileSystemManager.collect_video_files, lines 196-205, called at line 650:
\* os.walk of a directory that does not exist yields nothing, os.walk(None)
\* raises TypeError
RunCollectVideos ==
    /\ pc = "scan"
    /\ IF paths.download = "None"
       THEN RunAborted("critical", "fatal", "collect_video_files")
       ELSE /\ video_files' = IF paths.download = DownloadRoot THEN downloads ELSE <<>>
            /\ pc' = "plex"
            /\ trace' = Append(trace, "collect_video_files")
            /\ UNCHANGED <<nfo_files, rename_dict, syncVars, scorer, placement_mode,
                           current_platform, matcherVars, placerVars, is_auto,
                           config, paths, downloads, catalog, resolved, ridx,
                           deleted, metadata>>

\* UIManager.confirm_plex_usage, lines 488-507, called at line 652
RunConfirmPlex ==
    /\ pc = "plex"
    /\ IF is_auto
       THEN IF config.plex_plugin \notin {"y", "n"}
            THEN RunAborted("error", "plex_not_configured", "confirm_plex_usage")
            ELSE /\ pc' = "nfo"
                 /\ trace' = Append(trace, "confirm_plex_usage")
                 /\ UNCHANGED <<inputVars, matcherVars, placerVars, is_auto, config,
                                paths, downloads, catalog, resolved, ridx, deleted,
                                metadata>>
       ELSE /\ \E answer \in {"y", "n"} :
                 config' = IF config.plex_plugin \in {"PLEX_PLUGIN", "None"}
                           THEN [config EXCEPT !.plex_plugin = answer]
                           ELSE config
            /\ pc' = "nfo"
            /\ trace' = Append(trace, "confirm_plex_usage")
            /\ UNCHANGED <<inputVars, matcherVars, placerVars, is_auto, paths,
                           downloads, catalog, resolved, ridx, deleted, metadata>>

\* lines 653-656: get_nfo_files_from_api (217-232) or list_nfo_files (207-215).
\* A failed request is logged and gives the empty list; the API's paths are
\* joined to the media path whatever it is; os.path.join and os.walk raise
\* TypeError on None.
RunScanNfo ==
    /\ pc = "nfo"
    /\ LET call == IF config.plex_plugin = "y" THEN "get_nfo_files_from_api"
                   ELSE "list_nfo_files"
           Scanned(nfos, lines) ==
               /\ nfo_files' = nfos
               /\ log' = log \o lines
               /\ pc' = "check"
               /\ trace' = Append(trace, call)
               /\ UNCHANGED <<video_files, rename_dict, syncVars, scorer, placement_mode,
                              current_platform, matcherVars, all_matches, pos,
                              placed_files, updated_series, fs, dirs, io, run,
                              start, first, is_auto, config, paths, downloads,
                              catalog, resolved, ridx, deleted, metadata>>
       IN  IF config.plex_plugin = "y"
           THEN \/ Scanned(<<>>, << RunLine("error", "api") >>)
                \/ IF paths.media = "None" /\ catalog # <<>>
                   THEN RunAborted("critical", "fatal", call)
                   ELSE Scanned(catalog, <<>>)
           ELSE IF paths.media = "None"
                THEN RunAborted("critical", "fatal", call)
                ELSE Scanned(IF paths.media = MediaRoot THEN catalog ELSE <<>>, <<>>)

\* lines 658-668: the two tests of emptiness, then load_rename_dict and the
\* call of find_matches
RunCheckInputs ==
    /\ pc = "check"
    /\ IF video_files = <<>>
       THEN /\ log' = Append(log, RunLine("warning", "no_videos"))
            /\ pc' = "finished"
            /\ UNCHANGED trace
       ELSE IF nfo_files = <<>>
       THEN /\ log' = Append(log, RunLine("warning", "no_nfos"))
            /\ pc' = "finished"
            /\ UNCHANGED trace
       ELSE /\ pc' = "find_matches"
            /\ trace' = Append(trace, "find_matches")
            /\ UNCHANGED log
    /\ UNCHANGED <<inputVars, matcherVars, all_matches, pos, placed_files,
                   updated_series, fs, dirs, io, run, start, first, is_auto,
                   config, paths, downloads, catalog, resolved, ridx, deleted,
                   metadata>>

CleanupOfferedAlways(mode) == TRUE

\* line 679: if placement_method == 'c'
CleanupOffered(mode) == mode = "c"

\* lines 675-680 and 684-685, with UIManager.confirm_cleanup, lines 576-584:
\* after a yes the sources of placed_files are removed, those apart whose
\* os.remove raises (line 583)
RunCleanup ==
    /\ pc = "returned"
    /\ IF PlacedSet = {}
       THEN /\ log' = Append(log, RunLine("info", "nothing_placed"))
            /\ pc' = "handle_unmatched"
            /\ UNCHANGED <<trace, deleted>>
       ELSE /\ pc' = "metadata"
            /\ IF CleanupOffered(placement_mode)
               THEN /\ trace' = Append(trace, "confirm_cleanup")
                    /\ IF is_auto
                       THEN /\ log' = Append(log, RunLine("info", "placement_done"))
                            /\ UNCHANGED deleted
                       ELSE \E answer \in BOOLEAN :
                               IF answer
                               THEN /\ log' = log \o << RunLine("info", "placement_done"),
                                                        RunLine("info", "cleanup") >>
                                    /\ \E gone \in SUBSET PlacedSet :
                                          deleted' = deleted \cup gone
                               ELSE /\ log' = Append(log, RunLine("info", "placement_done"))
                                    /\ UNCHANGED deleted
               ELSE /\ log' = Append(log, RunLine("info", "placement_done"))
                    /\ UNCHANGED <<trace, deleted>>
    /\ UNCHANGED <<inputVars, matcherVars, all_matches, pos, placed_files,
                   updated_series, fs, dirs, io, run, start, first, is_auto,
                   config, paths, downloads, catalog, resolved, ridx, metadata>>

\* lines 682-683, with launch_metadata_script, lines 252-270: in automatic
\* mode ask_yes_no answers its default, the 'auto' argument
RunMetadata ==
    /\ pc = "metadata"
    /\ pc' = "handle_unmatched"
    /\ \E answer \in (IF is_auto THEN {TRUE} ELSE BOOLEAN) :
          IF answer
          THEN /\ metadata' = updated_series
               /\ trace' = Append(trace, "launch_metadata_script")
          ELSE UNCHANGED <<metadata, trace>>
    /\ UNCHANGED <<inputVars, matcherVars, placerVars, is_auto, config, paths,
                   downloads, catalog, resolved, ridx, deleted>>

\* line 529: handle_unmatched returns at once
ReviewNothing ==
    /\ pc = "handle_unmatched"
    /\ is_auto \/ unmatched = <<>>
    /\ pc' = "finished"
    /\ trace' = Append(trace, "handle_unmatched")
    /\ log' = Append(log, RunLine("info", "script_done"))
    /\ UNCHANGED <<inputVars, matcherVars, all_matches, pos, placed_files,
                   updated_series, fs, dirs, io, run, start, first, is_auto,
                   config, paths, downloads, catalog, resolved, ridx, deleted,
                   metadata>>

\* the state of the place_files call of line 560: accumulators of its own
ReviewerState(lines) ==
    [fs |-> fs, dirs |-> dirs, placed_files |-> <<>>, updated_series |-> {},
     log |-> lines, raised |-> FALSE]

AfterReviewMerged(placed, series, after) ==
    <<placed \o after.placed_files, series \cup after.updated_series>>

\* line 560: the lists that place_files returns are not assigned; the
\* placed_files and updated_series of Application.run stay as they are
AfterReview(placed, series, after) == <<placed, series>>

\* one turn of the loop of handle_unmatched, lines 535-564.  choice 0 is
\* the empty or non-numeric line.
ReviewEntry ==
    /\ pc = "handle_unmatched"
    /\ ~is_auto
    /\ ridx <= Len(unmatched)
    /\ LET video == unmatched[ridx][1]
           shown == unmatched[ridx][2]
           exposed == Append(log, LogLine("info", "unmatched", video, "none"))
       IN  IF Basename(video) \in ExtraNames
           THEN UNCHANGED <<log, resolved, fs, dirs, placed_files, updated_series>>
           ELSE IF shown = <<>>
           THEN /\ log' = Append(exposed, RunLine("warning", "no_suggestion"))
                /\ UNCHANGED <<resolved, fs, dirs, placed_files, updated_series>>
           ELSE \E choice \in 0..(Len(shown) + 1) :
                   IF choice \notin 1..Len(shown)
                   THEN /\ log' = Append(exposed, RunLine("info", "ignored"))
                        /\ UNCHANGED <<resolved, fs, dirs, placed_files,
                                       updated_series>>
                   ELSE LET nfo == DictValue(nfo_files, shown[choice][1])
                        IN  \E outcome \in Outcomes(placement_mode, current_platform) :
                              LET after == place_one(ReviewerState(exposed), video,
                                                     nfo, reviewer_score, outcome)
                              IN  /\ resolved' = Append(resolved,
                                                        << <<video, nfo, reviewer_score>> >>)
                                  /\ fs' = after.fs
                                  /\ dirs' = after.dirs
                                  /\ log' = after.log
                                  /\ placed_files' =
                                        AfterReview(placed_files, updated_series,
                                                    after)[1]
                                  /\ updated_series' =
                                        AfterReview(placed_files, updated_series,
                                                    after)[2]
    /\ ridx' = ridx + 1
    /\ trace' = IF ridx = 1 THEN Append(trace, "handle_unmatched") ELSE trace
    /\ UNCHANGED <<pc, inputVars, matcherVars, all_matches, pos, io, run, start,
                   first, is_auto, config, paths, downloads, catalog, deleted,
                   metadata>>

\* the loop of handle_unmatched is over; line 689
ReviewReturn ==
    /\ pc = "handle_unmatched"
    /\ ~is_auto
    /\ unmatched # <<>>
    /\ ridx > Len(unmatched)
    /\ pc' = "finished"
    /\ log' = Append(log, RunLine("info", "script_done"))
    /\ UNCHANGED <<inputVars, matcherVars, all_matches, pos, placed_files,
                   updated_series, fs, dirs, io, run, start, first, runVars>>

----------------------------------------------------------------------------
(* DatabaseManager: the table 'rename' *)

\* a line is the list of its pieces of text: a name, a blank " ", an arrow
\* "->", a word
Blank == " "

Arrow == "->"

\* line 153: row[0].split(" -> ")
delimiter == << Blank, Arrow, Blank >>

\* lines that rename/films.txt can hold: an override, an override between
\* blanks, an override written without blanks, a second override of the
\* first name, a remark, an override with two arrows
RawLines ==
    { << "k1", Blank, Arrow, Blank, "v1" >>,
      << Blank, "k2", Blank, Arrow, Blank, "v2", Blank >>,
      << "k3", Arrow, "v3" >>,
      << "k1", Blank, Arrow, Blank, "v3" >>,
      << "#", Blank, "note" >>,
      << "k2", Blank, Arrow, Blank, "v2", Blank, Arrow, Blank, "v3" >> }

\* a line of the table that an earlier version of films.txt held
OldLine == << "k4", Blank, Arrow, Blank, "v4" >>

\* str.strip()
RECURSIVE strip(_)
strip(line) ==
    IF line = <<>> THEN line
    ELSE IF Head(line) = Blank THEN strip(Tail(line))
    ELSE IF line[Len(line)] = Blank THEN strip(SubSeq(line, 1, Len(line) - 1))
    ELSE line

\* line 168: "->" in line
HasArrow(line) == \E j \in DOMAIN line : line[j] = Arrow

\* str.split(sep): the pieces between the occurrences of sep, from the left
RECURSIVE split(_, _)
split(line, sep) ==
    LET hits == { j \in 1..(Len(line) - Len(sep) + 1) :
                    SubSeq(line, j, j + Len(sep) - 1) = sep }
    IN  IF hits = {} THEN << line >>
        ELSE LET j == CHOOSE h \in hits : \A k \in hits : h <= k
             IN  << SubSeq(line, 1, j - 1) >>
                     \o split(SubSeq(line, j + Len(sep), Len(line)), sep)

\* line 168: set(line.strip() for line in response.text.splitlines() if "->" in line)
remote_lines(text) == { strip(line) : line \in { l \in text : HasArrow(l) } }

\* line 175
lines_to_add(remote_set, local_set) == remote_set \ local_set

\* line 176
lines_to_remove(remote_set, local_set) == local_set \ remote_set

\* lines 153-154: the row gives an entry of the dict
GivesEntry(row) == Len(split(row, delimiter)) = 2

EntryKey(row) == strip(split(row, delimiter)[1])

EntryValue(row) == strip(split(row, delimiter)[2])

\* load_rename_dict, lines 144-157: the rows are read in the order the
\* database returns them, and a later row of the same name replaces the entry
load_rename_dict(table) ==
    LET rows == { row \in table : GivesEntry(row) }
        keys == { EntryKey(row) : row \in rows }
        values == { EntryValue(row) : row \in rows }
    IN  { d \in [keys -> values] :
            \A k \in keys :
                \E row \in rows : EntryKey(row) = k /\ EntryValue(row) = d[k] }

\* update_rename_list_from_github, lines 159-191: GitHub, the download or the
\* database may raise, then the table is as before (line 190); otherwise the
\* table is brought to the remote lines and committed
SyncUpdate ==
    /\ sync = "start"
    /\ \/ /\ sync' = "failed"
          /\ log' = Append(log, RunLine("error", "rename_failed"))
          /\ UNCHANGED rename_table
       \/ LET remote_set == remote_lines(remote)
              added == lines_to_add(remote_set, rename_table)
              removed == lines_to_remove(remote_set, rename_table)
          IN  /\ rename_table' = (rename_table \cup added) \ removed
              /\ log' = Append(log, RunLine("info",
                                   IF added # {} \/ removed # {}
                                   THEN "rename_updated" ELSE "rename_up_to_date"))
              /\ sync' = "updated"
    /\ UNCHANGED <<video_files, nfo_files, rename_dict, scorer, placement_mode,
                   current_platform, remote, pc, matcherVars, all_matches, pos,
                   placed_files, updated_series, fs, dirs, io, run, start,
                   first, runVars>>

\* line 666: rename_dict = self.db.load_rename_dict()
SyncLoad ==
    /\ sync \in {"updated", "failed"}
    /\ rename_dict' \in load_rename_dict(rename_table)
    /\ sync' = IF sync = "updated" THEN "loaded" ELSE "loaded_old"
    /\ UNCHANGED <<video_files, nfo_files, scorer, placement_mode,
                   current_platform, remote, rename_table, pc, matcherVars,
                   placerVars, runVars>>

----------------------------------------------------------------------------
(* Specifications *)

\* the files found at destination paths before the first run: at most
\* MaxExisting, at paths that a video of this run can be placed at
Existing ==
    { S \in SUBSET { p \in AllPaths :
                        /\ \E v \in Range(video_files) : v.ext = p.ext
                        /\ \E n \in Range(nfo_files) :
                              n.dir = p.dir /\ n.base = p.name } :
        Cardinality(S) <= MaxExisting }

InitInputs ==
    /\ video_files \in SubLists(Downloads, MaxVideos)
    /\ nfo_files \in Catalogs
    /\ rename_dict \in RenameDicts

\* the table 'rename' was read: the override table is in rename_dict
Synced ==
    /\ remote = {}
    /\ rename_table = {}
    /\ sync = "loaded"

\* Application.run has come to line 668 in interactive mode, the config
\* table configured and the two scans done
Scanned ==
    /\ Synced
    /\ is_auto = FALSE
    /\ config = [fankai_parents |-> MediaRoot, fankai_telechargement |-> DownloadRoot,
                 type_placement |-> placement_mode, plex_plugin |-> "n"]
    /\ paths = [media |-> MediaRoot, download |-> DownloadRoot]
    /\ downloads = video_files
    /\ catalog = nfo_files
    /\ trace = << "get_paths", "get_placement_method", "collect_video_files",
                  "confirm_plex_usage", "list_nfo_files", "find_matches" >>
    /\ resolved = <<>>
    /\ ridx = 1
    /\ deleted = {}
    /\ metadata = {}

\* the state in which find_matches is entered
InitMemory ==
    /\ Scanned
    /\ pc = "find_matches"
    /\ vidx = 1
    /\ locals = NoLocals
    /\ standard_matches = <<>>
    /\ unmatched = <<>>
    /\ one_piece_matches = <<>>
    /\ all_matches = <<>>
    /\ pos = 1
    /\ placed_files = <<>>
    /\ updated_series = {}
    /\ log = <<>>
    /\ io = <<>>
    /\ run = 1
    /\ start = NoStart
    /\ first = NoFirst

\* a run of find_matches and place_files, once and again, under a scorer
\* that is a function of the names.  The copy path never reads the platform.
\* The directories are those of the files already there (a catalog taken
\* from the API names folders that need not exist yet).
Init ==
    /\ InitInputs
    /\ scorer \in ScoreTables
    /\ placement_mode \in {"c", "h"}
    /\ current_platform \in {"Windows", "Linux"}
    /\ placement_mode = "c" => current_platform = "Linux"
    /\ \E S \in Existing :
        /\ fs = [p \in AllPaths |-> IF p \in S THEN OldFile ELSE NoFile]
        /\ dirs = { p.dir : p \in S }
    /\ InitMemory

Next ==
    \/ MatchVideo
    \/ MatchReturn
    \/ PlaceStart
    \/ PlaceTriple
    \/ PlaceReturn
    \/ Rerun
    \/ Interrupt
    \/ InterruptCopy

Spec == Init /\ [][Next]_vars

\* find_matches alone, under a scorer that may answer anything
InitMatch ==
    /\ InitInputs
    /\ scorer = AnyScorer
    /\ placement_mode = "h"
    /\ current_platform = "Linux"
    /\ fs = [p \in AllPaths |-> NoFile]
    /\ dirs = {}
    /\ InitMemory

NextMatch ==
    \/ MatchVideo
    \/ MatchReturn

SpecMatch == InitMatch /\ [][NextMatch]_vars

\* find_matches over the videos in every order, under the scorers of the runs
InitOrder ==
    /\ video_files \in Orders(VideoUniverse, MaxVideos)
    /\ nfo_files \in Catalogs
    /\ rename_dict \in RenameDicts
    /\ scorer \in RunScoreTables
    /\ placement_mode = "h"
    /\ current_platform = "Linux"
    /\ fs = [p \in AllPaths |-> NoFile]
    /\ dirs = {}
    /\ InitMemory

SpecOrder == InitOrder /\ [][NextMatch]_vars

\* find_matches for one video over the wide catalog, under every scorer
InitWide ==
    /\ video_files \in SubLists(Downloads, 1)
    /\ nfo_files = WideCatalog
    /\ rename_dict \in RenameDicts
    /\ scorer \in WideScorers
    /\ placement_mode = "h"
    /\ current_platform = "Linux"
    /\ fs = [p \in AllPaths |-> NoFile]
    /\ dirs = {}
    /\ InitMemory

SpecWide == InitWide /\ [][NextMatch]_vars

\* the config tables of the runs: at most one key is not configured
Configs ==
    { c \in [fankai_parents : MediaValues, fankai_telechargement : DownloadValues,
             type_placement : PlacementValues, plex_plugin : PlexValues] :
        Cardinality({ k \in DOMAIN c :
                        c[k] \notin {MediaRoot, DownloadRoot, "h", "c", "y", "n"} }) <= 1 }

\* the override tables of the runs: also one that names the Yabai episode for
\* the One Piece video without the Yabai tag, and no other video
RunRenameDicts == RenameDicts \cup { [b \in {"p"} |-> "op1"] }

\* Application.run is entered at line 632: nothing is scanned yet, the media
\* library holds the catalog and no video
InitRun ==
    /\ is_auto \in BOOLEAN
    /\ config \in Configs
    /\ paths = NoPaths
    /\ downloads \in SubLists(Downloads, MaxVideos) \cup {<<>>}
    /\ catalog \in Catalogs \cup {RootCatalog, CollisionCatalog, <<>>}
    /\ rename_dict \in RunRenameDicts
    /\ Synced
    /\ scorer \in RunScoreTables
    /\ video_files = <<>>
    /\ nfo_files = <<>>
    /\ placement_mode = "none"
    /\ current_platform = "Linux"
    /\ fs = [p \in AllPaths |-> NoFile]
    /\ dirs = {}
    /\ pc = "run"
    /\ vidx = 1
    /\ locals = NoLocals
    /\ standard_matches = <<>>
    /\ unmatched = <<>>
    /\ one_piece_matches = <<>>
    /\ all_matches = <<>>
    /\ pos = 1
    /\ placed_files = <<>>
    /\ updated_series = {}
    /\ log = <<>>
    /\ io = <<>>
    /\ run = 1
    /\ start = NoStart
    /\ first = NoFirst
    /\ trace = <<>>
    /\ resolved = <<>>
    /\ ridx = 1
    /\ deleted = {}
    /\ metadata = {}

NextRun ==
    \/ RunGetPaths
    \/ RunGetPlacementMethod
    \/ RunCollectVideos
    \/ RunConfirmPlex
    \/ RunScanNfo
    \/ RunCheckInputs
    \/ MatchVideo
    \/ MatchReturn
    \/ PlaceStart
    \/ PlaceTriple
    \/ PlaceReturn
    \/ RunCleanup
    \/ RunMetadata
    \/ ReviewNothing
    \/ ReviewEntry
    \/ ReviewReturn

\* one run of the program from its start to its end
SpecRun == InitRun /\ [][NextRun]_vars

\* the tables 'rename' that an earlier synchronisation or an earlier version
\* of the program can have left
StoredTables ==
    { t \in SUBSET ({ strip(line) : line \in RawLines } \cup {OldLine}) :
        Cardinality(t) <= MaxStored }

\* Application.run at line 640: nothing is scanned, the table 'rename' is
\* what an earlier run left, films.txt holds any of the lines
InitSync ==
    /\ remote \in SUBSET RawLines
    /\ rename_table \in StoredTables
    /\ sync = "start"
    /\ rename_dict = [b \in {} |-> "none"]
    /\ is_auto = FALSE
    /\ config = [fankai_parents |-> MediaRoot, fankai_telechargement |-> DownloadRoot,
                 type_placement |-> "c", plex_plugin |-> "n"]
    /\ paths = NoPaths
    /\ downloads = <<>>
    /\ catalog = <<>>
    /\ scorer = [b \in VideoBases |-> {NearTable[b]}]
    /\ video_files = <<>>
    /\ nfo_files = <<>>
    /\ placement_mode = "none"
    /\ current_platform = "Linux"
    /\ fs = [p \in AllPaths |-> NoFile]
    /\ dirs = {}
    /\ pc = "run"
    /\ vidx = 1
    /\ locals = NoLocals
    /\ standard_matches = <<>>
    /\ unmatched = <<>>
    /\ one_piece_matches = <<>>
    /\ all_matches = <<>>
    /\ pos = 1
    /\ placed_files = <<>>
    /\ updated_series = {}
    /\ log = <<>>
    /\ io = <<>>
    /\ run = 1
    /\ start = NoStart
    /\ first = NoFirst
    /\ trace = <<>>
    /\ resolved = <<>>
    /\ ridx = 1
    /\ deleted = {}
    /\ metadata = {}

NextSync ==
    \/ SyncUpdate
    \/ SyncLoad

\* the synchronisation of the override table and its loading
SpecSync == InitSync /\ [][NextSync]_vars

----------------------------------------------------------------------------
(* What the claims speak of *)

\* the videos whose loop iteration of find_matches is over
Processed == { video_files[j] : j \in 1..(vidx - 1) }

StandardOf(v) == { k \in DOMAIN standard_matches : standard_matches[k][1] = v }

FanOutOf(v) == { k \in DOMAIN one_piece_matches : one_piece_matches[k].video = v }

UnmatchedOf(v) == { k \in DOMAIN unmatched : unmatched[k][1] = v }

\* the four outcomes of a source
ViaOverride(v) == \E k \in StandardOf(v) : standard_matches[k][3] = override_score

ViaStandard(v) == \E k \in StandardOf(v) : standard_matches[k][3] # override_score

ViaFanOut(v) == FanOutOf(v) # {}

IsUnmatched(v) == UnmatchedOf(v) # {}

\* the slots a source is assigned
AssignedSlots(v) ==
    { standard_matches[k][2] : k \in StandardOf(v) }
        \cup UNION { { one_piece_matches[k].options[j][1] :
                            j \in DOMAIN one_piece_matches[k].options } :
                     k \in FanOutOf(v) }

\* the basename has an override entry whose target is the basename of a slot
HasLiveOverride(v) ==
    /\ v.base \in DOMAIN rename_dict
    /\ \E n \in Range(nfo_files) : n.base = rename_dict[v.base]

Keys == { nfo_files[j].base : j \in DOMAIN nfo_files }

\* place of a basename in the order of discovery
Discovery(k) ==
    CHOOSE j \in DOMAIN nfo_files :
        nfo_files[j].base = k /\ \A i \in 1..(j - 1) : nfo_files[i].base # k

\* the slot of a basename
SlotOf(k) ==
    nfo_files[CHOOSE j \in DOMAIN nfo_files :
                 nfo_files[j].base = k
                 /\ \A i \in DOMAIN nfo_files : nfo_files[i].base = k => i <= j]

\* rank of a basename among the basenames of S under a row of scores: by
\* score descending, then by discovery
Rank(row, S, k) ==
    1 + Cardinality({ o \in S :
                        \/ row[o] > row[k]
                        \/ (row[o] = row[k] /\ Discovery(o) < Discovery(k)) })

Best(row, S) == CHOOSE s \in { row[k] : k \in S } : \A k \in S : row[k] <= s

\* the last iteration of find_matches is that of video v under the row
LastIteration(v, row) ==
    /\ pc = "find_matches"
    /\ locals # NoLocals
    /\ locals.video = v
    /\ locals.row = row

----------------------------------------------------------------------------
(* C4 - Override supremacy: a source whose basename has an override entry  *)
(* with a target among the slots is assigned that slot, alone, with the    *)
(* override score, whatever the scores of the other slots and whether or   *)
(* not the source is a One Piece video; it has no fan-out entry and is not *)
(* unmatched.                                                              *)
C4_OverrideSupremacy ==
    \A v \in Processed :
        HasLiveOverride(v) =>
            /\ Cardinality(StandardOf(v)) = 1
            /\ \A k \in StandardOf(v) :
                  /\ standard_matches[k][2] = SlotOf(rename_dict[v.base])
                  /\ standard_matches[k][3] = override_score
            /\ FanOutOf(v) = {}
            /\ UnmatchedOf(v) = {}

\* a One Piece video with a live override has just been matched while another
\* One Piece slot scored 100
C4_Witness ==
    \E v \in Processed :
        /\ HasLiveOverride(v)
        /\ HasOnePiece(v.base)
        /\ locals # NoLocals
        /\ locals.video = v
        /\ \E k \in Keys :
              k # rename_dict[v.base] /\ HasOnePiece(k) /\ locals.row[k] = 100
        /\ ViaOverride(v)

(* C5 - Partition of sources: every source whose iteration is over is in   *)
(* exactly one of the four outcomes, with one entry; a source not yet      *)
(* reached is in none.                                                     *)
C5_Partition ==
    \A j \in DOMAIN video_files :
        LET v == video_files[j]
            entries == Cardinality(StandardOf(v)) + Cardinality(FanOutOf(v))
                           + Cardinality(UnmatchedOf(v))
            outcomes == { o \in {"override", "standard", "fanout", "unmatched"} :
                            \/ (o = "override" /\ ViaOverride(v))
                            \/ (o = "standard" /\ ViaStandard(v))
                            \/ (o = "fanout" /\ ViaFanOut(v))
                            \/ (o = "unmatched" /\ IsUnmatched(v)) }
        IN  IF pc \in {"find_matches", "matched"} /\ j < vidx
            THEN entries = 1 /\ Cardinality(outcomes) = 1
            ELSE pc \in {"find_matches", "matched"} => entries = 0

\* find_matches has returned with two sources in two different outcomes, one
\* of them a source with a live override that also scores 100 elsewhere
C5_Witness ==
    /\ pc = "matched"
    /\ Len(video_files) = 2
    /\ ViaOverride(video_files[1])
    /\ ViaFanOut(video_files[2])

(* C7 - Threshold inclusivity: every fuzzy score attached to an assignment *)
(* is at least T.  For the source of the last iteration: where step 2 is   *)
(* evaluated, a One Piece slot is assigned exactly when it scores T or     *)
(* more (and is among the first `limit` of those); where step 3 is         *)
(* evaluated, the source is assigned exactly when its best ordinary slot   *)
(* scores T or more, so at T and not at T-1; and a source without live     *)
(* override whose best score is below T is unmatched, every slot that      *)
(* ranks within `limit` being its suggestion at that rank.                 *)
C7_ThresholdInclusive ==
    /\ \A k \in DOMAIN standard_matches :
          standard_matches[k][3] # override_score => standard_matches[k][3] >= threshold
    /\ \A k \in DOMAIN one_piece_matches :
          \A j \in DOMAIN one_piece_matches[k].options :
              one_piece_matches[k].options[j][2] >= threshold
    /\ (pc = "find_matches" /\ locals # NoLocals) =>
          LET v == locals.video
              row == locals.row
              opKeys == { k \in Keys : HasOnePiece(k) }
              plainKeys == { k \in Keys : ~HasOnePiece(k) }
              passing == { k \in opKeys : row[k] >= threshold }
          IN  /\ (HasOnePiece(v.base) /\ v.base \notin DOMAIN rename_dict) =>
                    \A k \in opKeys :
                        (k \in passing /\ Rank(row, passing, k) <= limit)
                            <=> (ViaFanOut(v) /\ SlotOf(k) \in AssignedSlots(v))
              /\ (~HasLiveOverride(v) /\ ~ViaFanOut(v) /\ plainKeys # {}) =>
                    IF Best(row, plainKeys) >= threshold
                    THEN /\ ViaStandard(v)
                         /\ \A k \in StandardOf(v) :
                               standard_matches[k][3] = Best(row, plainKeys)
                    ELSE ~ViaStandard(v)
              /\ (~HasLiveOverride(v) /\ Best(row, Keys) < threshold) =>
                    /\ IsUnmatched(v)
                    /\ \A u \in UnmatchedOf(v) : \A k \in Keys :
                          Rank(row, Keys, k) <= limit =>
                              /\ Rank(row, Keys, k) \in DOMAIN unmatched[u][2]
                              /\ unmatched[u][2][Rank(row, Keys, k)] = <<k, row[k]>>

\* one source was left unmatched with a best score of T-1, and the next was
\* assigned by step 3 a slot that scores exactly T
C7_Witness ==
    /\ pc = "find_matches"
    /\ Len(video_files) = 2
    /\ vidx = 3
    /\ IsUnmatched(video_files[1])
    /\ unmatched[1][2][1][2] = threshold - 1
    /\ ViaStandard(video_files[2])
    /\ Best(locals.row, { k \in Keys : ~HasOnePiece(k) }) = threshold

----------------------------------------------------------------------------
(* What the claims about place_files speak of *)

\* the state in which the running call of place_files began
AtStart ==
    [fs |-> start.fs, dirs |-> start.dirs, placed_files |-> <<>>,
     updated_series |-> {}, log |-> <<>>, raised |-> FALSE]

Logged(lvl, what, video, nfo) ==
    \E i \in DOMAIN log : log[i] = LogLine(lvl, what, video, nfo)

\* the call went into the copy or the link of the triple
Tried(t) == Logged("info", "place", t[1], t[2])

\* the copy or the link of the triple was gone into and reported no error
TriedClean(t) ==
    /\ Tried(t)
    /\ \A i \in DOMAIN log :
          (log[i].video = t[1] /\ log[i].nfo = t[2]) => log[i].level # "error"

Dest(t) == destination_file(t[1], t[2])

\* the file that the placement of a video creates
Placed(video) == IF placement_mode = "c" THEN CopyOf(video) ELSE LinkOf(video)

\* the j-th triple found a file at its destination: one that lay there at
\* the start, or one that an earlier triple of the call created
FoundPresent(j) ==
    \/ Exists(start.fs, Dest(triples[j]))
    \/ \E i \in 1..(j - 1) :
          /\ Dest(triples[i]) = Dest(triples[j])
          /\ Tried(triples[i])
          /\ Exists(fs, Dest(triples[i]))

\* the loop body was run for the j-th triple
Attempted(j) ==
    \/ Logged("warning", "gate", triples[j][1], triples[j][2])
    \/ Tried(triples[j])
    \/ FoundPresent(j)

(* C6 - Gated fan-out: a One Piece source without override entry that      *)
(* scores T or more against every One Piece slot is assigned all of them   *)
(* and is not unmatched, so no slot is a suggestion for it.  When          *)
(* place_files has returned, a slot in a Yabai folder has been refused to  *)
(* a source without the Yabai tag: a warning is logged, no copy or link is *)
(* gone into and no file of the source lies there.  Every other of these   *)
(* slots, when its destination was free at the start and its I/O does not  *)
(* fail, holds the file of the source, which is in the placed-set, its     *)
(* folder in the touched set.                                              *)
C6_GatedFanOut ==
    pc = "returned" =>
        \A v \in Range(video_files) : \A row \in scorer[v.base] :
            LET opSlots == { n \in Range(nfo_files) : HasOnePiece(n.base) }
            IN  (/\ is_op_video(v)
                 /\ v.base \notin DOMAIN rename_dict
                 /\ \A n \in opSlots : row[n.base] >= threshold)
                =>  /\ AssignedSlots(v) = opSlots
                    /\ ~IsUnmatched(v)
                    /\ \A n \in opSlots :
                          IF is_yabai_destination(n) /\ ~is_yabai_release(v)
                          THEN /\ Logged("warning", "gate", v, n)
                               /\ ~Tried(<<v, n>>)
                               /\ fs[destination_file(v, n)].data # v.base
                          ELSE (/\ ~Exists(start.fs, destination_file(v, n))
                                /\ io[<<v, n>>] = "ok")
                               =>  /\ fs[destination_file(v, n)] = Placed(v)
                                   /\ v \in PlacedSet
                                   /\ serie_folder(n) \in updated_series

\* a tagged and an untagged One Piece source have both gone through: the
\* tagged one lies in both folders, the untagged one in the plain folder only
C6_Witness ==
    /\ pc = "returned"
    /\ video_files = << Video("p", "mkv"), Video("py", "mp4") >>
    /\ DOMAIN rename_dict = {}
    /\ AssignedSlots(Video("p", "mkv")) = { Nfo("OPY", "op1"), Nfo("OP", "op2") }
    /\ fs[Path("OPY", "op1", "mp4")].data = "py"
    /\ fs[Path("OP", "op2", "mp4")].data = "py"
    /\ fs[Path("OP", "op2", "mkv")].data = "p"
    /\ fs[Path("OPY", "op1", "mkv")] = NoFile
    /\ Logged("warning", "gate", Video("p", "mkv"), Nfo("OPY", "op1"))

(* C8 - Partial failure: while place_files runs, the loop body has been    *)
(* run for every triple before the current one, whatever the errors of     *)
(* earlier triples; when it has returned, it has been run for every triple *)
(* of the batch, and every triple whose copy or link went through without  *)
(* error has its source in the placed-set and its folder in the touched    *)
(* set.                                                                    *)
C8_PartialFailure ==
    /\ pc = "place_files" =>
          /\ pos <= Len(triples) + 1
          /\ \A j \in 1..(pos - 1) : Attempted(j)
    /\ pc = "returned" =>
          /\ \A j \in DOMAIN triples : Attempted(j)
          /\ \A j \in DOMAIN triples :
                TriedClean(triples[j]) =>
                    /\ triples[j][1] \in PlacedSet
                    /\ serie_folder(triples[j][2]) \in updated_series

\* the placement of a source into one folder raised, and its placement into
\* a later folder was gone into and went through
C8_Witness ==
    /\ pc = "returned"
    /\ \E i, j \in DOMAIN triples :
          /\ i < j
          /\ triples[i][1] = triples[j][1]
          /\ Logged("error", "place", triples[i][1], triples[i][2])
          /\ TriedClean(triples[j])
          /\ fs[Dest(triples[j])] = Placed(triples[j][1])
          /\ triples[j][1] \in PlacedSet

(* C3 - Placed only on success: when place_files has returned, every       *)
(* source of the placed-set has a triple at whose destination the call     *)
(* created its file, and every folder of the touched set is the folder of  *)
(* such a triple.                                                          *)
C3_PlacedOnlyOnSuccess ==
    pc = "returned" =>
        LET Created(t) ==
                /\ ~Exists(start.fs, Dest(t))
                /\ Exists(fs, Dest(t))
                /\ fs[Dest(t)].data = t[1].base
        IN  /\ \A v \in PlacedSet :
                \E t \in Range(triples) : t[1] = v /\ Created(t)
            /\ \A s \in updated_series :
                \E t \in Range(triples) : serie_folder(t[2]) = s /\ Created(t)

(* C9 - No visible partial file: in copy mode, in every state, also that   *)
(* after an interrupt, a destination path that exists holds the complete   *)
(* content of a source (or a complete file that lay there before).         *)
C9_NoVisiblePartialFile ==
    placement_mode = "c" => \A p \in AllPaths : Exists(fs, p) => fs[p].full

\* every triple of the source is refused by the gate or has a file at its
\* destination in the filesystem files
NothingToPlace(files, v) ==
    \A t \in Range(triples) :
        t[1] = v => (Gated(t[1], t[2]) \/ Exists(files, Dest(t)))

Reordered(f) == [j \in DOMAIN triples |-> triples[f[j]]]

\* what place_files returns and leaves when it goes through the triples in
\* the order f from the state in which the call began, the I/O of every
\* triple failing or not as in the call
OutcomeInOrder(f) == Outcome(place_from(AtStart, Reordered(f), 1))

\* two triples of different sources that the gate lets through resolve to
\* one destination path, free at the start
Collision ==
    \E i, j \in DOMAIN triples :
        /\ triples[i][1] # triples[j][1]
        /\ Dest(triples[i]) = Dest(triples[j])
        /\ ~Gated(triples[i][1], triples[i][2])
        /\ ~Gated(triples[j][1], triples[j][2])
        /\ ~Exists(start.fs, Dest(triples[i]))

(* C10, as the claim states it: whatever the batch, also one in which two  *)
(* sources resolve to the same destination, every order of the triples     *)
(* gives the placed-set, the touched set and the filesystem that the call  *)
(* gave.                                                                   *)
C10_AnyOrderSameOutcome ==
    pc = "returned" =>
        \A f \in Permutations(DOMAIN triples) :
            OutcomeInOrder(f) = Outcome(PlacerState)

(* C10 - Order-independence: when no two triples of different sources that *)
(* the gate lets through resolve to the same free destination, every order *)
(* of the triples gives the placed-set, the touched set, the files and the *)
(* directories that the call gave, the I/O of each triple failing or not   *)
(* as it did in the call.                                                  *)
C10_OrderIndependence ==
    (pc = "returned" /\ ~Collision) =>
        \A f \in Permutations(DOMAIN triples) :
            OutcomeInOrder(f) = Outcome(PlacerState)

\* a batch of four triples, one of them failing and one refused by the gate,
\* has gone through and placed two sources
C10_Witness ==
    /\ pc = "returned"
    /\ ~Collision
    /\ Len(triples) >= 3
    /\ Cardinality(PlacedSet) = 2
    /\ Faults(io) # {}
    /\ \E f \in Permutations(DOMAIN triples) :
          /\ f[1] # 1
          /\ OutcomeInOrder(f) = Outcome(PlacerState)

----------------------------------------------------------------------------
\* the triples of the batch that place_files makes of what find_matches
\* returned
BatchTriples == Flatten(MergeStandard(one_piece_matches, standard_matches))

\* the row of scores of the video in a run whose scorer is a table
RowOf(v) == CHOOSE row \in scorer[v.base] : TRUE

(* C11 - Unmatched handling: when find_matches has returned, a source      *)
(* without live override whose scores against all slots are below T has    *)
(* exactly one unmatched entry and no assignment; the entry carries        *)
(* min(limit, number of slots) suggestions, drawn from all slots, One      *)
(* Piece or not: the slot of rank r, by score descending and discovery     *)
(* order among equals, is the r-th suggestion with its score; and the      *)
(* batch of place_files holds no triple of the source.                     *)
C11_UnmatchedHandling ==
    pc = "matched" =>
        \A v \in Range(video_files) :
            (/\ ~HasLiveOverride(v)
             /\ \A k \in Keys : RowOf(v)[k] < threshold)
            =>  /\ Cardinality(UnmatchedOf(v)) = 1
                /\ AssignedSlots(v) = {}
                /\ \A t \in Range(BatchTriples) : t[1] # v
                /\ \A u \in UnmatchedOf(v) :
                      /\ Len(unmatched[u][2]) = Min(limit, Cardinality(Keys))
                      /\ \A k \in Keys :
                            Rank(RowOf(v), Keys, k) <= limit =>
                                unmatched[u][2][Rank(RowOf(v), Keys, k)]
                                    = <<k, RowOf(v)[k]>>

\* an ordinary source scoring below T everywhere is unmatched over a
\* catalog of more than `limit` slots: its suggestions are One Piece
\* episodes, which score higher than the ordinary episode discovered first
C11_Witness ==
    /\ pc = "matched"
    /\ Cardinality(Keys) > limit
    /\ \E v \in Range(video_files) :
          /\ ~HasOnePiece(v.base)
          /\ \A k \in Keys : RowOf(v)[k] < threshold
          /\ \A k \in Keys \ {"n1"} : RowOf(v)["n1"] < RowOf(v)[k]
          /\ \E u \in UnmatchedOf(v) :
                /\ Len(unmatched[u][2]) = limit
                /\ \A j \in 1..limit : HasOnePiece(unmatched[u][2][j][1])
                /\ unmatched[u][2][1] = <<WideName(1), threshold - 1>>

----------------------------------------------------------------------------
\* the scores that steps 2 and 3 of find_matches have attached to triples
FuzzyScores ==
    { standard_matches[k][3] :
        k \in { j \in DOMAIN standard_matches :
                  standard_matches[j][3] # override_score } }
        \cup UNION { { one_piece_matches[k].options[j][2] :
                          j \in DOMAIN one_piece_matches[k].options } :
                     k \in DOMAIN one_piece_matches }

\* the triples handle_unmatched has given to place_files
ResolvedTriples == UNION { Range(resolved[j]) : j \in DOMAIN resolved }

(* C12 - Score ordering: every score that step 2 or step 3 attaches to a   *)
(* triple lies between T and 100; the triple of a source with a live       *)
(* override carries the override score, which is greater than each of      *)
(* them; and every batch that handle_unmatched gives to place_files is one *)
(* triple with the Reviewer's score, which is greater than the override    *)
(* score.                                                                  *)
C12_ScoreOrdering ==
    /\ \A s \in FuzzyScores : threshold <= s /\ s <= 100 /\ s < override_score
    /\ \A v \in Processed :
          HasLiveOverride(v) =>
              \A k \in StandardOf(v) : standard_matches[k][3] = override_score
    /\ \A j \in DOMAIN resolved :
          /\ Len(resolved[j]) = 1
          /\ resolved[j][1][3] = reviewer_score
          /\ resolved[j][1][3] > override_score
          /\ \A s \in FuzzyScores : resolved[j][1][3] > s

\* a run has ended in which one source was assigned by override and the
\* other, unmatched, was resolved through handle_unmatched
C12_Witness ==
    /\ pc = "finished"
    /\ resolved # <<>>
    /\ \E k \in DOMAIN standard_matches : standard_matches[k][3] = override_score

----------------------------------------------------------------------------
\* the calls of Application.run that scan, match or place
Called(call) == \E j \in DOMAIN trace : trace[j] = call

ScanCalls == {"collect_video_files", "list_nfo_files", "get_nfo_files_from_api"}

\* get_paths is over and the media root or the download root it leaves in
\* force is missing, empty or the placeholder
RootsUnusable ==
    /\ Called("get_paths")
    /\ \/ ~is_media_ok(config.fankai_parents)
       \/ ~is_download_ok(config.fankai_telechargement)

(* C13 - Configuration error precedes scanning: when get_paths is over and *)
(* the media root or the download root is missing or the placeholder, in   *)
(* automatic and in interactive mode, the run makes no source scan and no  *)
(* catalog scan, does not call find_matches and places nothing.            *)
C13_ConfigErrorPrecedesScan ==
    RootsUnusable =>
        /\ \A call \in ScanCalls \cup {"find_matches"} : ~Called(call)
        /\ pc \notin {"find_matches", "matched", "place_files", "returned"}
        /\ \A p \in AllPaths : ~Exists(fs, p)

\* the source scan, or the catalog scan, has returned the empty list
SourceScanEmpty ==
    /\ Called("collect_video_files")
    /\ pc # "exited" \/ Called("confirm_plex_usage")
    /\ video_files = <<>>

CatalogScanEmpty ==
    /\ pc \in {"check", "finished"}
    /\ nfo_files = <<>>

NothingToDoLines ==
    { j \in DOMAIN log :
        log[j] \in {RunLine("warning", "no_videos"), RunLine("warning", "no_nfos")} }

(* C14 - Empty input is terminal: once the source scan or the catalog scan *)
(* has returned the empty list, the run does not call find_matches,        *)
(* place_files, confirm_cleanup, launch_metadata_script or                 *)
(* handle_unmatched; and when it has ended, exactly one 'nothing to do'    *)
(* line is in the log.                                                     *)
C14_EmptyInputTerminal ==
    (SourceScanEmpty \/ CatalogScanEmpty) =>
        /\ \A call \in {"find_matches", "confirm_cleanup", "launch_metadata_script",
                        "handle_unmatched"} : ~Called(call)
        /\ pc \notin {"find_matches", "matched", "place_files", "returned",
                      "metadata", "handle_unmatched"}
        /\ pc \in {"finished", "exited"} => Cardinality(NothingToDoLines) = 1

(* C15 - Fan-out completeness: when find_matches has returned, the         *)
(* assignment of a One Piece source handled by step 2 holds every One      *)
(* Piece slot that scores T or more and that the gate does not refuse to   *)
(* the source, however many they are.                                      *)
C15_FanOutComplete ==
    pc = "matched" =>
        \A v \in Range(video_files) :
            (HasOnePiece(v.base) /\ ~InRenameDict(v)) =>
                \A k \in Keys :
                    (/\ HasOnePiece(k)
                     /\ RowOf(v)[k] >= threshold
                     /\ ~Gated(v, SlotOf(k)))
                    => SlotOf(k) \in AssignedSlots(v)

\* a One Piece slot that scores T or more for the source and that the gate
\* does not refuse to it
EligibleFanOut(v) ==
    { k \in Keys : HasOnePiece(k) /\ RowOf(v)[k] >= threshold /\ ~Gated(v, SlotOf(k)) }

(* C16 - Fall-through after gating: when find_matches has returned, a One  *)
(* Piece source without live override for which no One Piece slot both     *)
(* scores T or more and passes the gate has no fan-out entry; it is        *)
(* assigned by step 3 when its best ordinary slot scores T or more and is  *)
(* unmatched otherwise.                                                    *)
C16_FallThroughAfterGate ==
    pc \in {"matched", "place_files", "returned"} =>
        \A v \in Range(video_files) :
            (HasOnePiece(v.base) /\ ~HasLiveOverride(v) /\ EligibleFanOut(v) = {}) =>
                /\ ~ViaFanOut(v)
                /\ IF Best(RowOf(v), { k \in Keys : ~HasOnePiece(k) }) >= threshold
                   THEN ViaStandard(v)
                   ELSE IsUnmatched(v)

(* C17 - Dangling override does not block fan-out: when find_matches has   *)
(* returned, a One Piece source whose override entry names no slot of the  *)
(* catalog, and for which some One Piece slot scores T or more, has a      *)
(* fan-out entry holding the One Piece slots that score T or more, and no  *)
(* step-3 assignment.                                                      *)
C17_DanglingOverrideFansOut ==
    pc \in {"matched", "place_files", "returned"} =>
        \A v \in Range(video_files) :
            (/\ HasOnePiece(v.base)
             /\ InRenameDict(v)
             /\ ~HasLiveOverride(v)
             /\ \E k \in Keys : HasOnePiece(k) /\ RowOf(v)[k] >= threshold)
            =>  /\ ViaFanOut(v)
                /\ ~ViaStandard(v)
                /\ ~IsUnmatched(v)
                /\ AssignedSlots(v) =
                      { SlotOf(k) : k \in { o \in Keys : HasOnePiece(o)
                                                 /\ RowOf(v)[o] >= threshold } }

(* C18 - Standard single-best match: when find_matches has returned, a     *)
(* source assigned by step 3 has exactly one triple and no fan-out entry;  *)
(* its slot is not a One Piece slot; its score is the slot's score, the    *)
(* greatest over the ordinary slots and at least T; and no ordinary slot   *)
(* with that score was discovered before it.                               *)
C18_StandardSingleBest ==
    pc = "matched" =>
        \A v \in Range(video_files) :
            ViaStandard(v) =>
                LET plain == { k \in Keys : ~HasOnePiece(k) }
                IN  /\ Cardinality(StandardOf(v)) = 1
                    /\ ~ViaFanOut(v)
                    /\ ~IsUnmatched(v)
                    /\ \A j \in StandardOf(v) :
                          LET slot == standard_matches[j][2]
                              score == standard_matches[j][3]
                          IN  /\ slot \in Range(nfo_files)
                              /\ slot.base \in plain
                              /\ score = RowOf(v)[slot.base]
                              /\ score = Best(RowOf(v), plain)
                              /\ score >= threshold
                              /\ \A k \in plain :
                                    RowOf(v)[k] = score =>
                                        Discovery(slot.base) <= Discovery(k)

\* a One Piece source whose One Piece slots all score below T is assigned
\* by step 3 the ordinary slot discovered first, which ties with the one
\* discovered last
C18_Witness ==
    /\ pc = "matched"
    /\ \E v \in Range(video_files) :
          /\ HasOnePiece(v.base)
          /\ RowOf(v)["n1"] = threshold
          /\ RowOf(v)["n2"] = threshold
          /\ \E j \in StandardOf(v) :
                standard_matches[j] = <<v, Nfo("S1", "n1"), threshold>>

----------------------------------------------------------------------------
\* the triple was gone into, or found a file at its destination
NotDropped(t) == Tried(t) \/ Exists(fs, Dest(t))

\* the gate warnings of the log are about triples of step 2
GateOnlyOnFanOut ==
    \A j \in DOMAIN log :
        (log[j].level = "warning" /\ log[j].what = "gate") =>
            \E k \in DOMAIN one_piece_matches :
                /\ one_piece_matches[k].video = log[j].video
                /\ \E o \in DOMAIN one_piece_matches[k].options :
                      one_piece_matches[k].options[o][1] = log[j].nfo

\* the triples of step 1 are not dropped by the batch
OverridesAttempted ==
    pc \in {"returned", "metadata", "handle_unmatched", "finished"} =>
        \A k \in DOMAIN standard_matches :
            standard_matches[k][3] = override_score =>
                NotDropped(<<standard_matches[k][1], standard_matches[k][2]>>)

\* the triples of handle_unmatched are not dropped
ResolutionsAttempted == \A t \in ResolvedTriples : NotDropped(t)

(* C19 - Gate scope: every gate warning of the log is about a triple of    *)
(* the step-2 fan-out; the triple of an exact override is gone into by     *)
(* place_files unless a file lies at its destination, and so is the triple *)
(* of every resolution of handle_unmatched, also for a One Piece source    *)
(* without the Yabai tag and a slot in the Yabai folder.                   *)
C19_GateScope ==
    /\ GateOnlyOnFanOut
    /\ OverridesAttempted
    /\ ResolutionsAttempted

\* the call created its file at the destination of the triple
CreatedBy(t) ==
    /\ ~Exists(start.fs, Dest(t))
    /\ Exists(fs, Dest(t))
    /\ fs[Dest(t)].data = t[1].base

\* the first path segment, relative to the media root, of the directory of
\* a slot
FolderOf(nfo) == nfo.dir

\* the file names of the catalog
NfoFileNames == { n.base \o ".nfo" : n \in Range(nfo_files) }

\* every slot at which the call created a file has its folder in the set
NoFolderLost ==
    pc = "returned" =>
        \A t \in Range(triples) : CreatedBy(t) => FolderOf(t[2]) \in updated_series

\* every element of the set is the folder of a slot at which the call
\* created a file
NoFolderInvented ==
    pc = "returned" =>
        \A s \in updated_series :
            \E t \in Range(triples) : CreatedBy(t) /\ FolderOf(t[2]) = s

\* no element of the set is the name of a file
NoFileNameTouched ==
    pc = "returned" => updated_series \cap NfoFileNames = {}

(* C20 - Touched-folder set: when place_files has returned, the set it     *)
(* returns is exactly the set of the folders of the slots at which the     *)
(* call created a file: no folder of such a slot is missing, also when the *)
(* slot lies in the media root itself or outside it, every element is the  *)
(* folder of such a slot, and no element is the name of a file.            *)
C20_TouchedFolders ==
    /\ NoFolderLost
    /\ NoFolderInvented
    /\ NoFileNameTouched

\* a fallback invocation was made for the link of the pair: it failed and
\* was logged (line 245), or it created the link
FallbackAttempted(video, nfo) ==
    \/ Logged("error", "fsutil", video, nfo)
    \/ Exists(fs, destination_file(video, nfo))

(* C21 - Hardlink fallback: in hardlink mode, on every platform, whenever  *)
(* the creation of a hard link by os.link has failed for a triple, a       *)
(* fallback invocation has been made for it: the triple is given up only   *)
(* after the fallback has failed as well.                                  *)
C21_HardlinkFallback ==
    placement_mode = "h" =>
        \A i \in DOMAIN log :
            (log[i].level = "error" /\ log[i].what = "hardlink") =>
                FallbackAttempted(log[i].video, log[i].nfo)

\* handle_unmatched showed the entry of the video to the user
Exposed(video) ==
    \E i \in DOMAIN log : log[i].what = "unmatched" /\ log[i].video = video

(* C22 - Reviewer exposure: when an interactive run is over, every         *)
(* unmatched entry that find_matches produced has been shown by            *)
(* handle_unmatched; none is withheld because of the name of its file.     *)
C22_ReviewerExposure ==
    (pc = "finished" /\ ~is_auto /\ Called("handle_unmatched")) =>
        \A i \in DOMAIN unmatched : Exposed(unmatched[i][1])

\* a turn of the loop of handle_unmatched
ReviewStep == pc = "handle_unmatched" /\ ridx' = ridx + 1

\* in this turn the entry was shown with its suggestions and the user was
\* asked for a choice
Asked ==
    /\ Len(log') > Len(log)
    /\ log'[Len(log) + 1].what = "unmatched"
    /\ unmatched[ridx][2] # <<>>

\* the choice was empty, not a number, or out of range (line 552)
Declined == log'[Len(log')].what = "ignored"

\* the turn made one call of place_files, for the one triple, and the call
\* left a destination that existed alone
ResolvedOnce(t) ==
    /\ resolved' = Append(resolved, << t >>)
    /\ \A p \in AllPaths : p # Dest(t) => fs'[p] = fs[p]
    /\ Exists(fs, Dest(t)) => (fs' = fs /\ dirs' = dirs)

LaterDiscovered(nfo) ==
    \E j \in DOMAIN nfo_files :
        /\ nfo_files[j] = nfo
        /\ \A k \in DOMAIN nfo_files :
              k > j => Basename(nfo_files[k]) # Basename(nfo)

\* the catalog holds two files of one basename
Collides ==
    \E j, k \in DOMAIN nfo_files :
        j < k /\ Basename(nfo_files[j]) = Basename(nfo_files[k])

\* a list of names or of pairs (name, score) names nothing twice
NamedOnce(names) ==
    \A j, k \in DOMAIN names : names[j] = names[k] => j = k

\* the slots the Matcher assigned
MatcherSlots ==
    { standard_matches[j][2] : j \in DOMAIN standard_matches }
        \cup UNION { { one_piece_matches[j].options[k][1] :
                          k \in DOMAIN one_piece_matches[j].options } :
                     j \in DOMAIN one_piece_matches }

\* the slots the Placer went to
PlacerSlots ==
    { log[i].nfo : i \in { j \in DOMAIN log : log[j].what \in {"place", "gate"} } }

\* the slots the Reviewer gave to the Placer
ReviewerSlots == { resolved[j][1][2] : j \in DOMAIN resolved }

(* C24 - Catalog collision is last-wins: when the scan has discovered two  *)
(* reference files of one basename, every slot that the Matcher assigns,   *)
(* the Placer goes to or the Reviewer resolves to is the file discovered   *)
(* later, no file is created in the directory of the earlier one, and the  *)
(* basename is once among the choices and once among the suggestions.      *)
C24_CollisionLastWins ==
    /\ \A nfo \in MatcherSlots \cup PlacerSlots \cup ReviewerSlots :
          LaterDiscovered(nfo)
    /\ \A p \in AllPaths :
          Exists(fs, p) =>
              \E nfo \in Range(nfo_files) :
                  LaterDiscovered(nfo) /\ nfo.dir = p.dir /\ nfo.base = p.name
    /\ NamedOnce(nfo_basenames)
    /\ \A j \in DOMAIN unmatched : NamedOnce(unmatched[j][2])

\* a run over a catalog with a collision is over: one source was matched to
\* the basename that collides and placed, another was resolved to it
C24_Witness ==
    /\ pc = "finished"
    /\ Collides
    /\ \E j \in DOMAIN standard_matches :
          /\ Basename(standard_matches[j][2]) = "n1"
          /\ Exists(fs, destination_file(standard_matches[j][1],
                                         standard_matches[j][2]))
    /\ \E j \in DOMAIN resolved : Basename(resolved[j][1][2]) = "n1"

\* what find_matches returns for the video when it is the only source
SoloStandard(video) == standard_after(video, RowOf(video), <<>>)

SoloOnePiece(video) == one_piece_after(video, RowOf(video), <<>>)

SoloUnmatched(video) == unmatched_after(video, RowOf(video), <<>>)

(* C25 - Per-source independence of the Matcher: when find_matches has     *)
(* returned, what it holds for each source - its standard matches, its One *)
(* Piece destinations, its unmatched entry with suggestions - is what it   *)
(* returns for that source alone, whatever other sources the input holds   *)
(* and in whatever order.                                                  *)
C25_PerSourceIndependence ==
    pc = "matched" =>
        \A j \in DOMAIN video_files :
            LET video == video_files[j] IN
            /\ SelectSeq(standard_matches, LAMBDA t : t[1] = video)
                   = SoloStandard(video)
            /\ SelectSeq(one_piece_matches, LAMBDA e : e.video = video)
                   = SoloOnePiece(video)
            /\ SelectSeq(unmatched, LAMBDA e : e[1] = video)
                   = SoloUnmatched(video)

\* find_matches has returned for two sources given against the order of the
\* download folder: both have a standard match
C25_Witness ==
    /\ pc = "matched"
    /\ Len(video_files) = 2
    /\ Basename(video_files[1]) = "py"
    /\ Basename(video_files[2]) = "x2"
    /\ Len(standard_matches) = 2

\* confirm_cleanup got a yes: it logged that it removes the sources (line 578)
CleanupConfirmed == \E i \in DOMAIN log : log[i].what = "cleanup"

(* C26 - Source deletion is confined: over a run of Application.run, every *)
(* source that was deleted is in the placed-set of the batch, and sources  *)
(* are deleted only in copy mode, in interactive mode, after a yes to      *)
(* confirm_cleanup; in hardlink mode and in automatic mode none is.        *)
C26_DeletionConfined ==
    /\ deleted \subseteq PlacedSet
    /\ deleted # {} =>
          /\ placement_mode = "c"
          /\ ~is_auto
          /\ CleanupConfirmed
    /\ (placement_mode = "h" \/ is_auto) => deleted = {}

\* an interactive run in copy mode is over, the placed sources deleted
C26_Witness ==
    /\ pc = "finished"
    /\ deleted # {}
    /\ deleted = PlacedSet

(* C27 - Cleanup never loses a pending placement: just after               *)
(* confirm_cleanup, every source it deleted has a complete file at every   *)
(* destination the Matcher assigned it and the gate let through; a source  *)
(* one of whose fan-out copies failed is not deleted.                      *)
C27_CleanupKeepsPending ==
    pc = "metadata" =>
        \A v \in deleted :
            \A t \in Range(triples) :
                (t[1] = v /\ ~Gated(t[1], t[2])) =>
                    (Exists(fs, Dest(t)) /\ fs[Dest(t)].full)

\* the sources counted as placed all of whose triples go to the path
CountedAt(path) ==
    { v \in PlacedSet : \A t \in Range(triples) : t[1] = v => Dest(t) = path }

\* no line of the log is about the triple
Silent(t) ==
    \A i \in DOMAIN log : ~(log[i].video = t[1] /\ log[i].nfo = t[2])

\* at most one source is counted as placed at a path
OneCountedPerPath ==
    pc = "returned" => \A p \in AllPaths : Cardinality(CountedAt(p)) <= 1

\* a triple that comes after the triple that created the file at its
\* destination is skipped without a line in the log
LaterTriplesSilent ==
    pc = "returned" =>
        \A j, k \in DOMAIN triples :
            (/\ j < k
             /\ Dest(triples[j]) = Dest(triples[k])
             /\ ~Gated(triples[k][1], triples[k][2])
             /\ CreatedBy(triples[j])) => Silent(triples[k])

(* C28 - At most one placement per destination path: when place_files has  *)
(* returned and several triples of the call went to one destination path,  *)
(* at most one of their sources is counted as placed, and the triples that *)
(* came after the one that created the file were skipped without a line in *)
(* the log.                                                                *)
C28_OnePlacementPerPath ==
    /\ OneCountedPerPath
    /\ LaterTriplesSilent

\* the sources that handle_unmatched gave to place_files
ReviewerSources == { resolved[j][1][1] : j \in DOMAIN resolved }

(* C29 - Reviewer placements leave the run's results untouched: no step of *)
(* handle_unmatched changes the placed-set or the touched-folder set of    *)
(* the batch, no source it resolved is in them, and once handle_unmatched  *)
(* is entered no cleanup and no metadata refresh follows: the sources      *)
(* deleted and the folders refreshed stay as they were.                    *)
C29_ReviewerFrame ==
    /\ [][(pc = "handle_unmatched" \/ resolved # <<>>) =>
             /\ placed_files' = placed_files
             /\ updated_series' = updated_series
             /\ deleted' = deleted
             /\ metadata' = metadata]_vars
    /\ [](ReviewerSources \cap (PlacedSet \cup deleted) = {})

\* a run is over in which the batch placed a source, the source was deleted
\* and its folder refreshed, and handle_unmatched then placed another
\* source into a folder the batch had not touched
C29_Witness ==
    /\ pc = "finished"
    /\ deleted # {}
    /\ metadata # {}
    /\ \E j \in DOMAIN resolved :
          /\ Exists(fs, Dest(resolved[j][1]))
          /\ fs[Dest(resolved[j][1])].data = resolved[j][1][1].base
          /\ serie_folder(resolved[j][1][2]) \notin updated_series

\* every line of the table gives an override entry when it is loaded
StoredLinesGiveEntries ==
    sync = "updated" => \A row \in rename_table : GivesEntry(row)

\* the table holds the stripped remote lines with an arrow, and no other
TableIsRemote ==
    sync = "updated" =>
        /\ \A line \in remote : HasArrow(line) => strip(line) \in rename_table
        /\ \A row \in rename_table :
              \E line \in remote : HasArrow(line) /\ strip(line) = row

(* C30 - Override-table synchronisation converges: when                    *)
(* update_rename_list_from_github has completed without error, the lines   *)
(* of the table 'rename' are the stripped remote lines that contain '->',  *)
(* no more and no fewer, and every line of the table gives an override     *)
(* entry when load_rename_dict splits it at ' -> '.                        *)
C30_SyncConverges ==
    /\ TableIsRemote
    /\ StoredLinesGiveEntries

====
